---- MODULE Spec2Model ----
(***************************************************************************)
(* pushpop: a PostgreSQL backed message queue (client.go, sql.go).         *)
(*                                                                         *)
(* The table pushpop_messages is shared by any number of clients.  Each    *)
(* client is a sequential caller of NewMessage, Push/PushDelay, Pop and    *)
(* the four transitions.  Pop is a transaction (BEGIN, one statement,      *)
(* COMMIT); its statement locks the row it selects (FOR UPDATE) until the  *)
(* transaction ends, so a second Pop or a transition UPDATE that meets the *)
(* row waits and, at READ COMMITTED, re-checks the row's newest committed  *)
(* version when the lock is released.  Push and the transitions are single *)
(* autocommit statements: each is one step, which cannot be taken while a  *)
(* Pop has the row locked.                                                 *)
(*                                                                         *)
(* Spec has two clients on one topic: c1 creates, pushes, pops and         *)
(* transitions messages, c2 is a worker that pops.  SeqSpec has the single *)
(* client c1, two topics and two payloads.  RetSpec has c1 on one topic,   *)
(* with FindMessage, and records what each call returns.  WorkSpec is the  *)
(* concurrent part of the test, two clients that push, pop and complete.   *)
(* EditSpec has c1 change the Topic and Payload of its Message.            *)
(***************************************************************************)
EXTENDS Integers, Sequences, FiniteSets, TLC

\* ---- bounds of the model
MaxMsgs == 2
MaxTime == 2
MaxDur == 1

Clients == {"c1", "c2"}
Ids == 1..MaxMsgs
Durs == 0..MaxDur
Topics == {"widgets", "gadgets"}
Payloads == {"1", "2"}
\* Spec: one topic, one payload
Widgets == {"widgets"}
One == {"1"}

\* ---- program constants
State_READY == 0
State_PENDING == 1
State_COMPLETED == 2
State_DISCARDED == 3
\* interval '5 minutes' of sqlPopMessage; the unit of time is five minutes
Lease == 1
\* the zero time.Time of a Message that was never pushed
ZeroTime == 0

VARIABLES
    now,        \* wall clock (time.Now() of the clients, now() of the server)
    rows,       \* committed rows of pushpop_messages: id -> row
    handles,    \* in-memory *Message objects: client -> the Message the client
                \* works with, the one it last got from NewMessage or Pop
    nextId,     \* the next uuid NewMessage hands out
    pc,         \* per client: the Pop in progress and where it stands
    life,       \* per id: what last happened to the message (history)
    pushOrder,  \* ids in the order in which their Push succeeded (history)
    ret         \* per client whose calls are recorded: what its last call was
                \* and the error it returned (history)

vars == <<now, rows, handles, nextId, pc, life, pushOrder, ret>>

Put(f, k, v) == [x \in (DOMAIN f) \cup {k} |-> IF x = k THEN v ELSE f[x]]

Idle == [kind |-> "idle"]

PopKinds == {"popSnap", "popWait", "popLocked", "popNoRow"}

\* no call yet
NoCall == [op |-> "none", err |-> "nil", id |-> 0]

\* the store after NewClient and setup: the table pushpop_messages, empty
Start ==
    /\ now = 1
    /\ rows = << >>
    /\ handles = << >>
    /\ nextId = 1
    /\ pc = [c \in Clients |-> Idle]
    /\ life = [i \in Ids |-> "none"]
    /\ pushOrder = << >>

Init == Start /\ ret = << >>

\* the same, recording the calls of c1
RetInit == Start /\ ret = [c \in {"c1"} |-> NoCall]

\* the call op of client c returns err ("nil", "err": an error of the store,
\* "ErrNoMessage": sql.ErrNoRows); id is the id FindMessage was called with
Returned(c, op, err, id) ==
    ret' = IF c \in DOMAIN ret
           THEN [ret EXCEPT ![c] = [op |-> op, err |-> err, id |-> id]]
           ELSE ret

\* ---- time
Tick ==
    /\ now < MaxTime
    /\ now' = now + 1
    /\ UNCHANGED <<rows, handles, nextId, pc, life, pushOrder, ret>>

\* ---- Client.NewMessage: a fresh id, bound to the client, not persisted
\* (held is history: the client got the message from Pop and has not called
\* Complete, Discard or Defer on it since)
NewMessage(c, topic, payload) ==
    /\ pc[c].kind = "idle"
    /\ nextId <= MaxMsgs
    /\ handles' = Put(handles, c,
                      [Id |-> nextId, Topic |-> topic, State |-> State_READY,
                       StateTime |-> ZeroTime, Payload |-> payload,
                       held |-> FALSE])
    /\ nextId' = nextId + 1
    /\ Returned(c, "NewMessage", "nil", 0)
    /\ UNCHANGED <<now, rows, pc, life, pushOrder>>

\* ---- sqlPushMessage: INSERT; id is the PRIMARY KEY
\* variant: an INSERT that replaces the row of the same id
PushConflict_Upsert(tbl, id) == FALSE

PushConflict(tbl, id) == id \in DOMAIN tbl

\* variant: an INSERT that stores no payload
sqlPushMessage_NoPayload(tbl, id, topic, state, state_time, payload) ==
    Put(tbl, id, [topic |-> topic, state |-> state, state_time |-> state_time,
                  payload |-> ""])

sqlPushMessage(tbl, id, topic, state, state_time, payload) ==
    Put(tbl, id, [topic |-> topic, state |-> state, state_time |-> state_time,
                  payload |-> payload])

\* ---- Client.push (Message.Push is push(m, 0), Message.PushDelay push(m, dur))
\* The in-memory message is set to READY before the INSERT, whatever its outcome.
push(c, delay) ==
    /\ pc[c].kind = "idle"
    /\ c \in DOMAIN handles
    /\ LET m == [handles[c] EXCEPT !.State = State_READY,
                                   !.StateTime = now + delay]
       IN /\ handles' = [handles EXCEPT ![c] = m]
          /\ IF PushConflict(rows, m.Id)
             THEN /\ Returned(c, "push", "err", 0)
                  /\ UNCHANGED <<rows, life, pushOrder>>
             ELSE /\ Returned(c, "push", "nil", 0)
                  /\ rows' = sqlPushMessage(rows, m.Id, m.Topic, m.State,
                                            m.StateTime, m.Payload)
                  /\ life' = [life EXCEPT ![m.Id] =
                                  IF delay = 0 THEN "pushed" ELSE "delayed"]
                  /\ pushOrder' = Append(pushOrder, m.Id)
    /\ UNCHANGED <<now, nextId, pc>>

\* ---- sqlPopMessage
\* variant: WHERE topic = $1
Qualifies_AnyState(tbl, i, topic) == tbl[i].topic = topic

\* variant: WHERE state = 0
Qualifies_AnyTopic(tbl, i, topic) == tbl[i].state = State_READY

\* variant: a PENDING row whose deadline has passed qualifies too
Qualifies_Reclaim(tbl, i, topic) ==
    /\ tbl[i].topic = topic
    /\ \/ tbl[i].state = State_READY
       \/ tbl[i].state = State_PENDING /\ tbl[i].state_time <= now

\* WHERE topic = $1 AND state = 0
Qualifies(tbl, i, topic) ==
    /\ tbl[i].topic = topic
    /\ tbl[i].state = State_READY

\* variant: ORDER BY state_time DESC
Ordered_Desc(tbl, s) ==
    \A k, l \in DOMAIN s : k < l => tbl[s[k]].state_time >= tbl[s[l]].state_time

\* ORDER BY state_time ASC (rows of equal state_time come in any order)
Ordered(tbl, s) ==
    \A k, l \in DOMAIN s : k < l => tbl[s[k]].state_time <= tbl[s[l]].state_time

\* the result of the sub-select's scan on the statement's snapshot, before locking
Candidates(tbl, topic) ==
    LET Q == {i \in DOMAIN tbl : Qualifies(tbl, i, topic)}
    IN {s \in [1..Cardinality(Q) -> Q] :
            /\ \A k, l \in DOMAIN s : k # l => s[k] # s[l]
            /\ Ordered(tbl, s)}

\* the row lock FOR UPDATE takes: held by a Pop from its statement to its end
LockedByOther(c, i) ==
    \E d \in Clients \ {c} : pc[d].kind = "popLocked" /\ pc[d].id = i

\* variant: a lock that takes the row it waited for as the snapshot showed it
LockRows_NoRecheck(c, topic, s) ==
    IF s = << >> THEN [kind |-> "none"]
    ELSE IF LockedByOther(c, Head(s)) THEN [kind |-> "wait", cands |-> s]
    ELSE [kind |-> "row", id |-> Head(s)]

\* FOR UPDATE LIMIT 1 at READ COMMITTED: go through the candidates in order; wait
\* on a row another transaction has locked; re-check the newest committed version
\* of a row against the WHERE clause and pass over it when it no longer qualifies
RECURSIVE LockRows(_, _, _)
LockRows(c, topic, s) ==
    IF s = << >> THEN [kind |-> "none"]
    ELSE IF LockedByOther(c, Head(s)) THEN [kind |-> "wait", cands |-> s]
    ELSE IF Qualifies(rows, Head(s), topic) THEN [kind |-> "row", id |-> Head(s)]
    ELSE LockRows(c, topic, Tail(s))

\* variant: SET state = 1, state_time = now()
PopSet_NoLease(row, txnow) ==
    [row EXCEPT !.state = State_PENDING, !.state_time = txnow]

\* SET state = 1, state_time = (now() + interval '5 minutes'); now() is the
\* start time of the transaction
PopSet(row, txnow) ==
    [row EXCEPT !.state = State_PENDING, !.state_time = txnow + Lease]

\* RETURNING id, topic, state, state_time, payload, scanned into a new Message
Returning(i, row) ==
    [Id |-> i, Topic |-> row.topic, State |-> row.state,
     StateTime |-> row.state_time, Payload |-> row.payload, held |-> TRUE]

\* the state of the Pop of client c after its statement ran as far as res
\* (waited is history: the statement has waited for a lock)
AfterScan(topic, txnow, waited, res) ==
    IF res.kind = "wait"
    THEN [kind |-> "popWait", topic |-> topic, txnow |-> txnow, cands |-> res.cands]
    ELSE IF res.kind = "none"
    THEN [kind |-> "popNoRow", topic |-> topic, waited |-> waited]
    ELSE [kind |-> "popLocked", topic |-> topic, txnow |-> txnow, id |-> res.id,
          waited |-> waited]

\* ---- Client.Pop
\* c.db.Begin() and tx.QueryRow(sqlPopMessage, topic): the statement takes its
\* snapshot and scans it
Pop(c, topic) ==
    /\ pc[c].kind = "idle"
    /\ \E s \in Candidates(rows, topic) :
          pc' = [pc EXCEPT ![c] = AfterScan(topic, now, FALSE,
                                            LockRows(c, topic, s))]
    /\ UNCHANGED <<now, rows, handles, nextId, life, pushOrder, ret>>

\* The same in two steps, where other transactions commit between the statement's
\* snapshot and its locking of a row.  PopSnapshot: Begin, and the statement
\* takes its snapshot and orders the rows of it that qualify
PopSnapshot(c, topic) ==
    /\ pc[c].kind = "idle"
    /\ \E s \in Candidates(rows, topic) :
          pc' = [pc EXCEPT ![c] = [kind |-> "popSnap", topic |-> topic,
                                   txnow |-> now, cands |-> s]]
    /\ UNCHANGED <<now, rows, handles, nextId, life, pushOrder, ret>>

\* PopScan: the statement goes through these rows to lock the first
PopScan(c) ==
    /\ pc[c].kind = "popSnap"
    /\ pc' = [pc EXCEPT ![c] = AfterScan(pc[c].topic, pc[c].txnow, FALSE,
                                         LockRows(c, pc[c].topic, pc[c].cands))]
    /\ UNCHANGED <<now, rows, handles, nextId, life, pushOrder, ret>>

\* the statement goes on when the lock it waits for is released
PopResume(c) ==
    /\ pc[c].kind = "popWait"
    /\ ~LockedByOther(c, Head(pc[c].cands))
    /\ pc' = [pc EXCEPT ![c] = AfterScan(pc[c].topic, pc[c].txnow, TRUE,
                                         LockRows(c, pc[c].topic, pc[c].cands))]
    /\ UNCHANGED <<now, rows, handles, nextId, life, pushOrder, ret>>

\* Scan gives sql.ErrNoRows: return nil, ErrNoMessage (the deferred Rollback runs)
PopNoMessage(c) ==
    /\ pc[c].kind = "popNoRow"
    /\ pc' = [pc EXCEPT ![c] = Idle]
    /\ Returned(c, "Pop", "ErrNoMessage", 0)
    /\ UNCHANGED <<now, rows, handles, nextId, life, pushOrder>>

\* the Message a Pop that has locked its row returns when its Commit succeeds
PopMessage(c) == Returning(pc[c].id, PopSet(rows[pc[c].id], pc[c].txnow))

\* tx.Commit() succeeds: the update becomes visible, the lock goes, msg is returned
PopCommit(c) ==
    /\ pc[c].kind = "popLocked"
    /\ rows' = [rows EXCEPT ![pc[c].id] = PopSet(@, pc[c].txnow)]
    /\ handles' = Put(handles, c, PopMessage(c))
    /\ life' = [life EXCEPT ![pc[c].id] = "popped"]
    /\ pc' = [pc EXCEPT ![c] = Idle]
    /\ Returned(c, "Pop", "nil", 0)
    /\ UNCHANGED <<now, nextId, pushOrder>>

\* tx.Commit() fails: return nil, err; the transaction is rolled back
PopCommitFail(c) ==
    /\ pc[c].kind = "popLocked"
    /\ pc' = [pc EXCEPT ![c] = Idle]
    /\ Returned(c, "Pop", "err", 0)
    /\ UNCHANGED <<now, rows, handles, nextId, life, pushOrder>>

\* variant: a terminal state deletes the row
sqlTransitionMessage_Delete(tbl, id, state, state_time) ==
    IF id \in DOMAIN tbl /\ state \in {State_COMPLETED, State_DISCARDED}
    THEN [x \in DOMAIN tbl \ {id} |-> tbl[x]]
    ELSE IF id \in DOMAIN tbl
    THEN [tbl EXCEPT ![id].state = state, ![id].state_time = state_time]
    ELSE tbl

\* ---- sqlTransitionMessage: UPDATE ... WHERE id = $1, no condition on the state
sqlTransitionMessage(tbl, id, state, state_time) ==
    IF id \in DOMAIN tbl
    THEN [tbl EXCEPT ![id].state = state, ![id].state_time = state_time]
    ELSE tbl

\* what last happened to a message (history), after transition op has updated
\* its row: "done" by Complete or Discard; by Defer "requeued" when a Pop had
\* returned it and it was not completed since, "revived" when it was completed
\* or discarded before, "deferred" otherwise; "acked" by Extend after a Pop
AfterTransition(l, op) ==
    IF op \in {"Complete", "Discard"} THEN "done"
    ELSE IF op = "Defer" THEN (IF l \in {"done", "revived"} THEN "revived"
                               ELSE IF l \in {"popped", "acked"} THEN "requeued"
                               ELSE "deferred")
    ELSE IF l = "popped" THEN "acked"
    ELSE l

\* ---- Message.transitionAfter: the in-memory message is set first, then the
\* UPDATE is sent; ok tells whether Exec returns nil or a store error
transitionAfter(c, op, state, dur, ok) ==
    /\ pc[c].kind = "idle"
    /\ c \in DOMAIN handles
    /\ ~LockedByOther(c, handles[c].Id)
    /\ LET m == [handles[c] EXCEPT !.State = state, !.StateTime = now + dur,
                                   !.held = @ /\ op = "Extend"]
       IN /\ handles' = [handles EXCEPT ![c] = m]
          /\ IF ok
             THEN /\ rows' = sqlTransitionMessage(rows, m.Id, m.State, m.StateTime)
                  /\ life' = IF m.Id \in DOMAIN rows
                             THEN [life EXCEPT ![m.Id] = AfterTransition(@, op)]
                             ELSE life
             ELSE UNCHANGED <<rows, life>>
    /\ Returned(c, op, IF ok THEN "nil" ELSE "err", 0)
    /\ UNCHANGED <<now, nextId, pc, pushOrder>>

Complete(c) == \E ok \in BOOLEAN : transitionAfter(c, "Complete", State_COMPLETED, 0, ok)

Discard(c) == \E ok \in BOOLEAN : transitionAfter(c, "Discard", State_DISCARDED, 0, ok)

Defer(c, dur) == \E ok \in BOOLEAN : transitionAfter(c, "Defer", State_READY, dur, ok)

Extend(c, dur) == \E ok \in BOOLEAN : transitionAfter(c, "Extend", State_PENDING, dur, ok)

\* ---- the caller changes the exported fields of its Message
\* Message.EncodePayload (or an assignment to m.Payload)
EncodePayload(c, payload) ==
    /\ pc[c].kind = "idle"
    /\ c \in DOMAIN handles
    /\ handles' = [handles EXCEPT ![c].Payload = payload]
    /\ Returned(c, "EncodePayload", "nil", 0)
    /\ UNCHANGED <<now, rows, nextId, pc, life, pushOrder>>

\* an assignment to m.Topic
SetTopic(c, topic) ==
    /\ pc[c].kind = "idle"
    /\ c \in DOMAIN handles
    /\ handles' = [handles EXCEPT ![c].Topic = topic]
    /\ UNCHANGED <<now, rows, nextId, pc, life, pushOrder, ret>>

\* ---- Client.FindMessage
\* the relations of the store: setup creates the table pushpop_messages (and its
\* indices) and nothing else
StoreTables == {"pushpop_messages"}

\* the rows of the relation a statement names
Relation(name) == IF name = "pushpop_messages" THEN rows ELSE << >>

\* sqlFindMessage: SELECT ... FROM messages WHERE id = $1
sqlFindMessage(id) ==
    IF "messages" \notin StoreTables THEN [kind |-> "error"]
    ELSE IF id \in DOMAIN Relation("messages")
    THEN [kind |-> "row", row |-> Relation("messages")[id]]
    ELSE [kind |-> "norows"]

\* QueryRow(sqlFindMessage, id).Scan: the row scanned into a new Message, or the
\* error of Scan (sql.ErrNoRows when the query gives no row)
FindMessage(c, id) ==
    /\ pc[c].kind = "idle"
    /\ LET r == sqlFindMessage(id)
       IN IF r.kind = "row"
          THEN /\ handles' = Put(handles, c,
                                 [Returning(id, r.row) EXCEPT !.held = FALSE])
               /\ Returned(c, "FindMessage", "nil", id)
          ELSE /\ UNCHANGED handles
               /\ Returned(c, "FindMessage",
                           IF r.kind = "norows" THEN "ErrNoMessage" ELSE "err", id)
    /\ UNCHANGED <<now, rows, nextId, pc, life, pushOrder>>

\* ---- two clients, one topic: c1 does everything, c2 pops
Next ==
    \/ Tick
    \/ \E t \in Widgets, p \in One : NewMessage("c1", t, p)
    \/ \E d \in Durs : push("c1", d)
    \/ \E c \in Clients, t \in Widgets : Pop(c, t)
    \/ \E c \in Clients : PopResume(c)
    \/ \E c \in Clients : PopNoMessage(c)
    \/ \E c \in Clients : PopCommit(c)
    \/ \E c \in Clients : PopCommitFail(c)
    \/ Complete("c1")
    \/ Discard("c1")
    \/ \E d \in Durs : Defer("c1", d)
    \/ \E d \in Durs : Extend("c1", d)

Spec == Init /\ [][Next]_vars

\* ---- one client, two topics, two payloads
SeqNext ==
    \/ Tick
    \/ \E t \in Topics, p \in Payloads : NewMessage("c1", t, p)
    \/ \E d \in Durs : push("c1", d)
    \/ \E t \in Topics : Pop("c1", t)
    \/ PopNoMessage("c1")
    \/ PopCommit("c1")
    \/ PopCommitFail("c1")
    \/ Complete("c1")
    \/ Discard("c1")
    \/ \E d \in Durs : Defer("c1", d)
    \/ \E d \in Durs : Extend("c1", d)

SeqSpec == Init /\ [][SeqNext]_vars

\* ---- one client, one topic, one payload; its calls are recorded
RetNext ==
    \/ Tick
    \/ \E t \in Widgets, p \in One : NewMessage("c1", t, p)
    \/ \E d \in Durs : push("c1", d)
    \/ \E t \in Widgets : Pop("c1", t)
    \/ PopNoMessage("c1")
    \/ PopCommit("c1")
    \/ PopCommitFail("c1")
    \/ Complete("c1")
    \/ Discard("c1")
    \/ \E d \in Durs : Defer("c1", d)
    \/ \E d \in Durs : Extend("c1", d)
    \/ \E i \in Ids : FindMessage("c1", i)

RetSpec == RetInit /\ [][RetNext]_vars

\* ---- the concurrent part of TestPushpopClient with two goroutines and one
\* message each: every client pushes a new message, then pops a message and
\* completes it; when all are done a last Pop is made
Fresh(c) == c \notin DOMAIN handles

Created(c) ==
    /\ c \in DOMAIN handles
    /\ ~handles[c].held
    /\ handles[c].StateTime = ZeroTime

Pushed(c) ==
    /\ c \in DOMAIN handles
    /\ ~handles[c].held
    /\ handles[c].State = State_READY
    /\ handles[c].StateTime # ZeroTime

Popped(c) == c \in DOMAIN handles /\ handles[c].held

Done(c) ==
    /\ c \in DOMAIN handles
    /\ ~handles[c].held
    /\ handles[c].State = State_COMPLETED

\* expectPushOk: NewMessage, then Push
WorkNew(c) == Fresh(c) /\ \E t \in Widgets, p \in One : NewMessage(c, t, p)

WorkPush(c) == Created(c) /\ push(c, 0)

\* expectPopMessage, then msg.Complete()
WorkPop(c) == Pushed(c) /\ \E t \in Widgets : PopSnapshot(c, t)

WorkComplete(c) == Popped(c) /\ Complete(c)

\* after wg.Wait(): expectPopNoMessage
WorkLastPop(c) ==
    /\ \A d \in Clients : Done(d)
    /\ \E t \in Widgets : PopSnapshot(c, t)

WorkNext ==
    \/ Tick
    \/ \E c \in Clients : WorkNew(c)
    \/ \E c \in Clients : WorkPush(c)
    \/ \E c \in Clients : WorkPop(c)
    \/ \E c \in Clients : PopScan(c)
    \/ \E c \in Clients : PopResume(c)
    \/ \E c \in Clients : PopNoMessage(c)
    \/ \E c \in Clients : PopCommit(c)
    \/ \E c \in Clients : PopCommitFail(c)
    \/ \E c \in Clients : WorkComplete(c)
    \/ \E c \in Clients : WorkLastPop(c)

WorkSpec == Init /\ [][WorkNext]_vars

\* ---- one client that also changes the Payload and Topic of its Message; its
\* calls are recorded; all calls are made at one time, with no delay
EditNext ==
    \/ \E t \in Widgets, p \in One : NewMessage("c1", t, p)
    \/ \E p \in Payloads : EncodePayload("c1", p)
    \/ \E t \in Topics : SetTopic("c1", t)
    \/ push("c1", 0)
    \/ \E t \in Topics : Pop("c1", t)
    \/ PopNoMessage("c1")
    \/ PopCommit("c1")
    \/ PopCommitFail("c1")
    \/ Complete("c1")
    \/ Discard("c1")
    \/ Defer("c1", 0)
    \/ Extend("c1", 0)

EditSpec == RetInit /\ [][EditNext]_vars

\* the same, where time passes and a call in progress returns
LiveSpec ==
    /\ SeqSpec
    /\ WF_vars(Tick)
    /\ WF_vars(PopNoMessage("c1") \/ PopCommit("c1"))

(***************************************************************************)
(* Properties                                                              *)
(***************************************************************************)
IsReady(i) == i \in DOMAIN rows /\ rows[i].state = State_READY

IsPending(i) == i \in DOMAIN rows /\ rows[i].state = State_PENDING

ReadyIn(t) == {i \in Ids : IsReady(i) /\ rows[i].topic = t}

\* the step in which the statement of c's Pop locks and updates row i
Selects(c, i) ==
    /\ pc[c].kind \in {"idle", "popWait"}
    /\ pc'[c].kind = "popLocked"
    /\ pc'[c].id = i

\* the step in which c calls Pop(t) and the statement runs without waiting
PopRuns(c, t) ==
    /\ pc[c].kind = "idle"
    /\ pc'[c].kind \in {"popLocked", "popNoRow"}
    /\ pc'[c].topic = t

\* the step in which c's Pop commits and returns message i
Returns(c, i) ==
    /\ pc[c].kind = "popLocked"
    /\ pc[c].id = i
    /\ pc'[c].kind = "idle"
    /\ life'[i] = "popped"

\* no Pop of another client is in progress
Alone(c) == \A d \in Clients \ {c} : pc[d].kind \notin PopKinds

\* j was pushed before i
Before(j, i) ==
    \E k, l \in DOMAIN pushOrder : k < l /\ pushOrder[k] = j /\ pushOrder[l] = i

\* C1: concurrent Pops never have the same message, and a Pop gets a message
\* only when no Pop has returned it since a Push or a Defer last made it READY
C1_Exclusive ==
    \A c \in Clients : pc[c].kind = "popLocked" =>
        /\ life[pc[c].id] \in {"pushed", "delayed", "requeued", "deferred", "revived"}
        /\ \A d \in Clients \ {c} : pc[d].kind = "popLocked" => pc[d].id # pc[c].id

\* a Pop that waited for the row another Pop had locked has got a message
C1_Witness ==
    \E c \in Clients : pc[c].kind = "popLocked" /\ pc[c].waited

\* C2: no two clients hold the same PENDING message
C2_OneHolder ==
    \A c, d \in DOMAIN handles :
        (/\ c # d
         /\ handles[c].held
         /\ handles[d].held
         /\ handles[c].Id = handles[d].Id) => ~IsPending(handles[c].Id)

\* j was READY when the statement of c's Pop began: the Pop begins in this
\* step, or j is one of the rows of its snapshot that it has yet to go through
ReadySinceBegin(c, j) ==
    \/ pc[c].kind = "idle"
    \/ /\ pc[c].kind = "popWait"
       /\ \E k \in DOMAIN pc[c].cands : pc[c].cands[k] = j

\* C3: when a Pop takes a message, no message of the topic that is READY, and was
\* so when the Pop began, has a smaller state_time than the message taken
C3_Smallest ==
    [][\A c \in Clients, i \in Ids : Selects(c, i) =>
          \A j \in ReadyIn(rows[i].topic) :
              ReadySinceBegin(c, j) => rows[i].state_time <= rows[j].state_time]_vars

C5_RoundTrip ==
    [][\A c \in Clients :
          /\ \A t \in Topics :
                (PopRuns(c, t) /\ Alone(c) /\ Cardinality(ReadyIn(t)) = 1) =>
                    (pc'[c].kind = "popLocked" /\ pc'[c].id \in ReadyIn(t))
          /\ \A i \in Ids :
                (Returns(c, i) /\ c \in DOMAIN handles /\ handles[c].Id = i
                    /\ ~handles[c].held) =>
                    /\ handles'[c].Id = handles[c].Id
                    /\ handles'[c].Topic = handles[c].Topic
                    /\ handles'[c].Payload = handles[c].Payload
                    /\ handles'[c].State = State_PENDING]_vars

\* the client has got back the message it pushed
C5_Witness ==
    \E c \in DOMAIN handles :
        /\ handles[c].held
        /\ handles[c].State = State_PENDING
        /\ life[handles[c].Id] = "popped"
        /\ pushOrder = <<handles[c].Id>>

\* C6: a Pop on a topic with no READY message ends with ErrNoMessage and changes
\* no row
C6_Empty ==
    [][\A c \in Clients :
          /\ \A t \in Topics :
                (PopRuns(c, t) /\ ReadyIn(t) = {}) =>
                    (pc'[c].kind = "popNoRow" /\ rows' = rows)
          /\ (pc[c].kind = "popNoRow" /\ pc'[c] # pc[c]) =>
                    (pc'[c] = Idle /\ rows' = rows)]_vars

\* a Pop ends with ErrNoMessage on a topic that has messages, none of them READY
C6_Witness ==
    \E c \in Clients :
        /\ pc[c].kind = "popNoRow"
        /\ ReadyIn(pc[c].topic) = {}
        /\ \E i \in DOMAIN rows : rows[i].topic = pc[c].topic
        /\ \E i \in DOMAIN rows : rows[i].topic # pc[c].topic /\ IsReady(i)

\* C7: no Pop gets a message on which Complete or Discard has succeeded
C7_Terminal ==
    \A c \in Clients : pc[c].kind = "popLocked" => life[pc[c].id] # "revived"

\* C8: a Pop returns a message that Defer has made READY again only when its
\* state_time has passed
C8_DeferElapsed ==
    [][\A c \in Clients, i \in Ids :
          (Returns(c, i) /\ life[i] = "requeued") => rows[i].state_time <= now]_vars

\* C9: a Pop returns a message pushed with a delay only when its state_time has
\* passed
C9_DelayElapsed ==
    [][\A c \in Clients, i \in Ids :
          (Returns(c, i) /\ life[i] = "delayed") => rows[i].state_time <= now]_vars

\* a message a Pop has returned and no transition has touched since
Unacked(i) == IsPending(i) /\ life[i] = "popped"

\* C10: a message that was popped and is not acknowledged does not stay PENDING
\* for ever once the time the Pop gave it has run out: it becomes READY again
C10_Requeued ==
    \A i \in Ids : (Unacked(i) /\ rows[i].state_time <= now) ~> ~Unacked(i)

\* the step in which FindMessage(id) of client c returns
FindReturns(c, id) ==
    /\ c \in DOMAIN ret
    /\ ret'[c].op = "FindMessage"
    /\ ret'[c].id = id
    /\ now' = now
    /\ pc' = pc
    /\ pc[c].kind = "idle"

\* C11: FindMessage(id) returns the stored message of that id as it is, whatever
\* its state, when the id was pushed, and ErrNoMessage when it was not
C11_Find ==
    [][\A c \in Clients, i \in Ids : FindReturns(c, i) =>
          IF i \in DOMAIN rows
          THEN /\ ret'[c].err = "nil"
               /\ handles'[c].Id = i
               /\ handles'[c].Topic = rows[i].topic
               /\ handles'[c].State = rows[i].state
               /\ handles'[c].StateTime = rows[i].state_time
               /\ handles'[c].Payload = rows[i].payload
          ELSE ret'[c].err = "ErrNoMessage"]_vars

\* the step in which the statement of c's Pop ends without a row
FindsNoRow(c) ==
    /\ pc[c].kind \in {"idle", "popSnap", "popWait"}
    /\ pc'[c].kind = "popNoRow"

\* C12: when every client pushes a message and then pops and completes one, a
\* Pop reports ErrNoMessage only when the topic has no READY message, no message
\* is returned to two clients, and the Pop made after all have been completed
\* gets no message
C12_AllPopped ==
    [][\A c \in Clients :
          /\ FindsNoRow(c) => ReadyIn(pc'[c].topic) = {}
          /\ \A i \in Ids : Returns(c, i) =>
                \A d \in Clients \ {c} :
                    (d \in DOMAIN handles /\ handles[d].Id = i) => Pushed(d)
          /\ (\A d \in Clients : Done(d)) => pc'[c].kind # "popLocked"]_vars

\* the changes of state the protocol has: READY to PENDING (Pop), PENDING to
\* COMPLETED (Complete), to DISCARDED (Discard), to READY (Defer)
StateChanges ==
    {<<State_READY, State_PENDING>>, <<State_PENDING, State_COMPLETED>>,
     <<State_PENDING, State_DISCARDED>>, <<State_PENDING, State_READY>>}

\* C13: a row is created READY, and every change of a row's state is one of the
\* protocol's; in particular none leads out of COMPLETED or DISCARDED
C13_Transitions ==
    [][\A i \in Ids :
          /\ (i \notin DOMAIN rows /\ i \in DOMAIN rows') =>
                rows'[i].state = State_READY
          /\ (i \in DOMAIN rows /\ i \in DOMAIN rows'
                /\ rows'[i].state # rows[i].state) =>
                <<rows[i].state, rows'[i].state>> \in StateChanges]_vars

TransitionOps == {"Complete", "Discard", "Defer", "Extend"}

\* the step in which a transition called by client c returns err
TransitionReturns(c, err) ==
    /\ c \in DOMAIN ret
    /\ c \in DOMAIN handles
    /\ pc[c].kind = "idle"
    /\ pc' = pc
    /\ now' = now
    /\ ret'[c].op \in TransitionOps
    /\ ret'[c].err = err

\* C14: a transition that fails with an error of the store leaves the State and
\* StateTime of the in-memory message as they were
C14_KeepsState ==
    [][\A c \in Clients : TransitionReturns(c, "err") =>
          /\ handles'[c].State = handles[c].State
          /\ handles'[c].StateTime = handles[c].StateTime]_vars

\* C15: no Pop waits for a row that the Pop of another client has locked
C15_NoWait ==
    \A c \in Clients :
        ~(pc[c].kind = "popWait" /\ LockedByOther(c, Head(pc[c].cands)))

\* C16: after Push or a transition has returned without error, and until the
\* client's next call returns, the row of the message exists and has the State
\* and StateTime of the in-memory message
C16_Mirror ==
    \A c \in DOMAIN ret :
        (ret[c].op \in TransitionOps \cup {"push"} /\ ret[c].err = "nil") =>
            /\ handles[c].Id \in DOMAIN rows
            /\ rows[handles[c].Id].state = handles[c].State
            /\ rows[handles[c].Id].state_time = handles[c].StateTime

\* C17: a Pop that returns message i has changed row i and no other: its state
\* to PENDING and its state_time to the time of the Pop's transaction plus the
\* lease; the Message returned has the row's new state and state_time and its
\* id, topic and payload, which are unchanged
C17_OneRow ==
    [][\A c \in Clients, i \in Ids : Returns(c, i) =>
          /\ DOMAIN rows' = DOMAIN rows
          /\ \A j \in DOMAIN rows \ {i} : rows'[j] = rows[j]
          /\ rows'[i] = [rows[i] EXCEPT !.state = State_PENDING,
                                         !.state_time = pc[c].txnow + Lease]
          /\ pc[c].txnow <= now
          /\ handles'[c].Id = i
          /\ handles'[c].Topic = rows[i].topic
          /\ handles'[c].Payload = rows[i].payload
          /\ handles'[c].State = rows'[i].state
          /\ handles'[c].StateTime = rows'[i].state_time]_vars

\* a Pop has returned one of two READY messages of a topic and left the other
C17_Witness ==
    \E c \in DOMAIN handles, j \in DOMAIN rows :
        /\ handles[c].held
        /\ life[handles[c].Id] = "popped"
        /\ IsPending(handles[c].Id)
        /\ rows[handles[c].Id].state_time = handles[c].StateTime
        /\ j # handles[c].Id
        /\ IsReady(j)
        /\ rows[j].topic = handles[c].Topic

\* C18: Pop(t) takes a message of topic t only and changes no row of another
\* topic, and what it gets is decided by the rows of topic t alone: no message
\* when none of them is READY, else one of them of the smallest state_time
C18_Lanes ==
    [][\A c \in Clients :
          /\ \A i \in Ids : Selects(c, i) => rows[i].topic = pc'[c].topic
          /\ \A i \in Ids : Returns(c, i) =>
                \A j \in DOMAIN rows :
                    rows[j].topic # pc[c].topic => rows'[j] = rows[j]
          /\ \A t \in Topics : PopRuns(c, t) =>
                IF ReadyIn(t) = {}
                THEN pc'[c].kind = "popNoRow"
                ELSE /\ pc'[c].kind = "popLocked"
                     /\ pc'[c].id \in ReadyIn(t)
                     /\ \A j \in ReadyIn(t) :
                           rows[pc'[c].id].state_time <= rows[j].state_time]_vars

\* a Pop has taken a message of its topic while another topic has a READY
\* message of a smaller state_time
C18_Witness ==
    \E c \in Clients, j \in DOMAIN rows :
        /\ pc[c].kind = "popLocked"
        /\ IsReady(j)
        /\ rows[j].topic # pc[c].topic
        /\ rows[j].state_time < rows[pc[c].id].state_time

\* a client calls a transition on message i: an UPDATE of row i with the State
\* and StateTime the call has set in the client's Message
TransitionOn(i) ==
    \E c \in DOMAIN handles :
        /\ pc[c].kind = "idle"
        /\ pc' = pc
        /\ handles[c].Id = i
        /\ handles'[c].Id = i
        /\ handles'[c].State = rows'[i].state
        /\ handles'[c].StateTime = rows'[i].state_time

C20_Immutable ==
    [][\A i \in DOMAIN rows :
          /\ i \in DOMAIN rows'
          /\ rows'[i].topic = rows[i].topic
          /\ rows'[i].payload = rows[i].payload]_vars

\* the last call of a client was a transition that succeeded on a Message whose
\* Topic and Payload the client had changed after the Push
C20_Witness ==
    \E c \in DOMAIN ret :
        /\ ret[c].op \in TransitionOps
        /\ ret[c].err = "nil"
        /\ handles[c].Id \in DOMAIN rows
        /\ rows[handles[c].Id].state = handles[c].State
        /\ rows[handles[c].Id].state_time = handles[c].StateTime
        /\ rows[handles[c].Id].topic # handles[c].Topic
        /\ rows[handles[c].Id].payload # handles[c].Payload

\* client c's call of Push or PushDelay returns in this step
PushReturns(c) ==
    /\ c \in DOMAIN ret
    /\ c \in DOMAIN handles
    /\ pc[c].kind = "idle"
    /\ pc' = pc
    /\ now' = now
    /\ handles'[c] = [handles[c] EXCEPT !.State = State_READY,
                                        !.StateTime = handles'[c].StateTime]
    /\ ret'[c].op = "push"

\* C21: a Push of a message whose id has a row returns an error of the store,
\* inserts no row and leaves every row as it was
C21_PushConflict ==
    [][\A c \in Clients :
          (PushReturns(c) /\ handles[c].Id \in DOMAIN rows) =>
              /\ ret'[c].err = "err"
              /\ rows' = rows
              /\ pushOrder' = pushOrder]_vars

\* the last call of a client was a Push that failed, on a Message that a Pop
\* had returned and whose Topic and Payload the client had changed since: the
\* row is PENDING and has the topic and the payload of the first Push
C21_Witness ==
    \E c \in DOMAIN ret :
        /\ ret[c].op = "push"
        /\ ret[c].err = "err"
        /\ handles[c].Id \in DOMAIN rows
        /\ IsPending(handles[c].Id)
        /\ life[handles[c].Id] = "popped"
        /\ handles[c].State = State_READY
        /\ rows[handles[c].Id].topic # handles[c].Topic
        /\ rows[handles[c].Id].payload # handles[c].Payload

====
